---- MODULE Spec2Model ----
(***************************************************************************)
(* Model of scripts/image_tools/hdr.py: the HDR class (Radiance RGBE       *)
(* reader/writer).  A file is a sequence of bytes (0..255).  The class is  *)
(* Python 2 code: lines read from a file opened "rb" are byte strings.     *)
(*                                                                         *)
(* Floats.  Every value the class stores comes from                        *)
(*     pow(byte * 2^k, 1/GAMMA) / 255.0        (GAMMA = 2)                 *)
(* or is a pixel given to set_pixel.  A float d >= 0 is represented by the *)
(* pair <<m, k>> with (255 * d)^2 = m * 2^k, m odd (or <<0, 0>> for 0.0);  *)
(* this is the exact real value, floating-point rounding is not modelled,  *)
(* so equality of pairs is equality "up to floating-point rounding".       *)
(***************************************************************************)
EXTENDS Integers, Sequences, FiniteSets, TLC

(***************************************************************************)
(* Bounds of the model.                                                    *)
(***************************************************************************)
MaxHeaderLines == 2   \* lines of an input file before its raw bytes
MaxPayload == 5       \* raw bytes of an input file after its lines
MaxDim == 2           \* create_black_image(width, height) with 1..MaxDim
WideDim == 11         \* one more width, of two decimal digits, with height 1
MaxSets == 1          \* successful set_pixel calls of a session

GAMMA == 2

(***************************************************************************)
(* Byte strings.                                                           *)
(***************************************************************************)
Signature == <<35, 63, 82, 65, 68, 73, 65, 78, 67, 69>>          \* #?RADIANCE
FormatLine == <<70, 79, 82, 77, 65, 84, 61, 51, 50, 45, 98, 105, 116, 95,
                114, 108, 101, 95, 114, 103, 98, 101>>   \* FORMAT=32-bit_rle_rgbe
IgnoredPrefixes ==
    { <<70, 79, 82, 77, 65, 84, 61>>,                 \* FORMAT=
      <<69, 88, 80, 79, 83, 85, 82, 69, 61>>,         \* EXPOSURE=
      <<67, 79, 76, 79, 82, 67, 79, 82, 82, 61>>,     \* COLORCORR=
      <<83, 79, 70, 84, 87, 65, 82, 69, 61>>,         \* SOFTWARE=
      <<80, 73, 88, 65, 83, 80, 69, 67, 84, 61>>,     \* PIXASPECT=
      <<86, 73, 69, 87, 61>>,                         \* VIEW=
      <<80, 82, 73, 77, 65, 82, 73, 69, 83, 61>>,     \* PRIMARIES=
      <<71, 65, 77, 77, 65, 61>>,                     \* GAMMA=
      <<35, 32>> }                                    \* "# "

StartsWith(s, p) == Len(s) >= Len(p) /\ SubSeq(s, 1, Len(p)) = p

EndsWith(s, p) == Len(s) >= Len(p) /\ SubSeq(s, Len(s) - Len(p) + 1, Len(s)) = p

\* \s of the re module on a byte string: space, \t, \n, \v, \f, \r
IsSpace(b) == b = 32 \/ (b >= 9 /\ b <= 13)

\* \d of the re module on a byte string
IsDigit(b) == b >= 48 /\ b <= 57

\* what "$" leaves out: one newline at the very end of the string
StripNewline(s) ==
    IF Len(s) > 0 /\ s[Len(s)] = 10 THEN SubSeq(s, 1, Len(s) - 1) ELSE s

\* "." matches every byte but the newline
NoNewline(s) == \A i \in 1..Len(s) : s[i] # 10

\* index of the first byte of s at or after i that is no digit (Len(s)+1 if none)
RECURSIVE DigitsEnd(_, _)
DigitsEnd(s, i) ==
    IF i <= Len(s) /\ IsDigit(s[i]) THEN DigitsEnd(s, i + 1) ELSE i

\* int() of a string of decimal digits
RECURSIVE ParseInt(_)
ParseInt(ds) ==
    IF Len(ds) = 0 THEN 0
    ELSE 10 * ParseInt(SubSeq(ds, 1, Len(ds) - 1)) + (ds[Len(ds)] - 48)

\* '%d' % n
RECURSIVE FormatNat(_)
FormatNat(n) ==
    IF n < 10 THEN <<48 + n>> ELSE FormatNat(n \div 10) \o <<48 + (n % 10)>>

FormatInt(n) == IF n < 0 THEN <<45>> \o FormatNat(0 - n) ELSE FormatNat(n)

\* f.readline() at position pos (1-based): up to and including the next
\* newline, or up to the end of the file; '' at the end of the file
RECURSIVE LineEnd(_, _)
LineEnd(f, i) ==
    IF i > Len(f) THEN Len(f)
    ELSE IF f[i] = 10 THEN i
    ELSE LineEnd(f, i + 1)

ReadLine(f, pos) == SubSeq(f, pos, LineEnd(f, pos))

\* f.read() at position pos: the rest of the file
ReadRest(f, pos) == SubSeq(f, pos, Len(f))

(***************************************************************************)
(* load_from_file: the header loop.                                        *)
(***************************************************************************)
\* re.match(r'^#\?RADIANCE$', line)
MatchSignature(line) == StripNewline(line) = Signature

\* re.match(r'^(.)(.)\s(\d+)\s(.)(.)\s(\d+)$', line): \d+ is followed by \s,
\* so the first run of digits ends at the first byte that is no digit
MatchSize(line) ==
    LET body == StripNewline(line)
        i == DigitsEnd(body, 4)
        j == DigitsEnd(body, i + 4)
    IN  /\ Len(body) >= 9
        /\ NoNewline(body)
        /\ IsSpace(body[3])
        /\ i > 4
        /\ i + 4 <= Len(body)
        /\ IsSpace(body[i])
        /\ IsSpace(body[i + 3])
        /\ j > i + 4
        /\ j = Len(body) + 1

\* m.group(1..6) of the size match
SizeGroups(line) ==
    LET body == StripNewline(line)
        i == DigitsEnd(body, 4)
    IN  [g1 |-> body[1], g2 |-> body[2], g3 |-> SubSeq(body, 4, i - 1),
         g4 |-> body[i + 1], g5 |-> body[i + 2],
         g6 |-> SubSeq(body, i + 4, Len(body))]

\* the "ignored header entries" test
IsIgnoredEntry(line) == \E p \in IgnoredPrefixes : StartsWith(line, p)

\* HDR.__init__
NewHDR ==
    [data |-> <<>>, width |-> -1, height |-> -1,
     xFlipped |-> FALSE, yFlipped |-> FALSE, rotated |-> FALSE]

\* the "Case: Size" assignments
SetSize(h, line) ==
    LET m == SizeGroups(line)
        rot == (m.g2 = 88)
    IN  [h EXCEPT !.rotated = rot,
                  !.xFlipped = ((IF rot THEN m.g1 ELSE m.g4) = 45),
                  !.yFlipped = ((IF rot THEN m.g4 ELSE m.g1) = 43),
                  !.width = ParseInt(m.g6),
                  !.height = ParseInt(m.g3)]

\* the while loop and "data = line + f.read()": the locals hdr, header, data
\* when the loop is left
RECURSIVE HeaderLoop(_, _, _, _)
HeaderLoop(f, pos, h, header) ==
    LET line == ReadLine(f, pos)
        next == pos + Len(line)
    IN  IF line = <<>>
          THEN [hdr |-> h, header |-> header, data |-> <<>>]
        ELSE IF Len(line) = 1 /\ line[1] = 10
          THEN HeaderLoop(f, next, h, header)
        ELSE IF MatchSignature(line)
          THEN HeaderLoop(f, next, h, TRUE)
        ELSE IF MatchSize(line)
          THEN HeaderLoop(f, next, SetSize(h, line), header)
        ELSE IF IsIgnoredEntry(line)
          THEN HeaderLoop(f, next, h, header)
        ELSE [hdr |-> h, header |-> header, data |-> line \o ReadRest(f, next)]

(***************************************************************************)
(* Floats (see the top of the module).                                     *)
(***************************************************************************)
RECURSIVE Pow2(_)
Pow2(n) == IF n <= 0 THEN 1 ELSE 2 * Pow2(n - 1)

\* the float whose (255 * d)^GAMMA is m * 2^k
RECURSIVE Float(_, _)
Float(m, k) ==
    IF m = 0 THEN <<0, 0>>
    ELSE IF m % 2 = 0 THEN Float(m \div 2, k + 1)
    ELSE <<m, k>>

Black == Float(0, 0)                   \* 0.0
White == Float(255 * 255, 0)           \* 1.0
Dim == Float(635, 2)                   \* sqrt(2540) / 255, about 0.1976

\* a <= b on floats; mantissas are below 2^16
FloatLeq(a, b) ==
    IF a[1] = 0 THEN TRUE
    ELSE IF b[1] = 0 THEN FALSE
    ELSE IF a[2] - b[2] >= 16 THEN FALSE
    ELSE IF b[2] - a[2] >= 16 THEN TRUE
    ELSE IF a[2] >= b[2] THEN a[1] * Pow2(a[2] - b[2]) <= b[1]
    ELSE a[1] <= b[1] * Pow2(b[2] - a[2])

\* max(r, g, b)
Max3(r, g, b) ==
    LET rg == IF FloatLeq(g, r) THEN r ELSE g
    IN  IF FloatLeq(b, rg) THEN rg ELSE b

(***************************************************************************)
(* load_from_file: "Convert data to floats".                               *)
(***************************************************************************)
\* pow(byte * pow(2.0, ebyte - 128.0 + 8.0), 1.0 / GAMMA) / 255.0
DecodeChannel(byte, ebyte) == Float(byte, ebyte - 128 + 8)

\* hdr.data after the conversion loop over n pixels
DecodeData(data, n) ==
    [j \in 1..(3 * n) |->
        DecodeChannel(data[4 * ((j - 1) \div 3) + ((j - 1) % 3) + 1],
                      data[4 * ((j - 1) \div 3) + 4])]

\* load_from_file(filename) on a file of content f: the assertion that fails
\* ("ok" if none does), the local data, and the HDR that is returned when
\* none fails
load_from_file(f) ==
    LET p == HeaderLoop(f, 1, NewHDR, FALSE)
        h == p.hdr
    IN  IF ~p.header
          THEN [err |-> "Invalid header.", data |-> p.data, hdr |-> h]
        ELSE IF ~(4 * h.width * h.height = Len(p.data) /\ Len(p.data) > 0)
          THEN [err |-> "Invalid dimensions.", data |-> p.data, hdr |-> h]
        ELSE IF h.rotated \/ h.xFlipped \/ h.yFlipped
          THEN [err |-> "Flip or rotation flags are not supported.",
                data |-> p.data, hdr |-> h]
        ELSE [err |-> "ok", data |-> p.data,
              hdr |-> [h EXCEPT !.data = DecodeData(p.data, h.width * h.height)]]

(***************************************************************************)
(* save: the encoding of one pixel.                                        *)
(***************************************************************************)
\* largest j with m * 2^j <= 255^GAMMA, for 0 < m <= 255^GAMMA
RECURSIVE Headroom(_)
Headroom(m) == IF 2 * m <= 255 * 255 THEN 1 + Headroom(2 * m) ELSE 0

\* math.ceil(math.log(v, 2)) if v != 0.0 else 0.0, for v = pow(d, GAMMA), that
\* is v = m * 2^k / 255^GAMMA: the least e with 2^e >= v
Exponent(d) == IF d[1] = 0 THEN 0 ELSE d[2] - Headroom(d[1])

\* clamp_int(value, lo, hi) of clamp.py, on the value num / den >= 0: rounded
\* to the nearest integer, then clamped
clamp_int(num, den, lo, hi) ==
    LET n == (2 * num + den) \div (2 * den)
    IN  IF n < lo THEN lo ELSE IF n > hi THEN hi ELSE n

\* clamp_int(pow(d, GAMMA) / pow(2, e - 8), 0, 255): the quotient is
\* m * 2^(k - e + 8) / 255^GAMMA, at most 256, and below 2^-14 when
\* k - e + 8 < -14
Mantissa(d, e) ==
    LET t == d[2] - e + 8
    IN  IF d[1] = 0 \/ t < -14 THEN clamp_int(0, 1, 0, 255)
        ELSE IF t >= 0 THEN clamp_int(d[1] * Pow2(t), 255 * 255, 0, 255)
        ELSE clamp_int(d[1], 255 * 255 * Pow2(0 - t), 0, 255)

\* the four bytes save writes for the pixel (r, g, b)
EncodePixel(r, g, b) ==
    LET e == Exponent(Max3(r, g, b))
    IN  <<Mantissa(r, e), Mantissa(g, e), Mantissa(b, e),
          clamp_int(e + 128, 1, 0, 255)>>

\* the bytes of pixels i..n-1 (0-based) of the buffer
RECURSIVE EncodeData(_, _, _)
EncodeData(data, i, n) ==
    IF i >= n THEN <<>>
    ELSE EncodePixel(data[3 * i + 1], data[3 * i + 2], data[3 * i + 3])
         \o EncodeData(data, i + 1, n)

(***************************************************************************)
(* The methods of an HDR object h.                                         *)
(***************************************************************************)
create_black_image(width, height) ==
    [NewHDR EXCEPT !.width = width, !.height = height,
                   !.data = [j \in 1..(3 * width * height) |-> Black]]

is_valid(h) == 3 * h.width * h.height = Len(h.data)

\* a bounds check that is off by one at x = 0
InBounds_OffByOne(h, x, y) == (x > 0 /\ x < h.width) /\ (y >= 0 /\ y < h.height)

\* the two assertions of get_pixel and of set_pixel
InBounds(h, x, y) == (x >= 0 /\ x < h.width) /\ (y >= 0 /\ y < h.height)

get_pixel(h, x, y) ==
    LET i == 3 * (y * h.width + x)
    IN  <<h.data[i + 1], h.data[i + 2], h.data[i + 3]>>

\* a set_pixel that appends the pixel instead of overwriting one
set_pixel_Append(h, x, y, pixel) == [h EXCEPT !.data = h.data \o pixel]

set_pixel(h, x, y, pixel) ==
    LET i == 3 * (y * h.width + x)
    IN  [h EXCEPT !.data = [h.data EXCEPT ![i + 1] = pixel[1],
                                          ![i + 2] = pixel[2],
                                          ![i + 3] = pixel[3]]]

\* a header whose resolution line gives the width first
SavedHeader_WidthFirst(h) ==
    Signature \o <<10>> \o FormatLine \o <<10>> \o <<10>>
    \o <<45, 89, 32>> \o FormatInt(h.width)
    \o <<32, 43, 88, 32>> \o FormatInt(h.height) \o <<10>>

\* the header lines save writes
SavedHeader(h) ==
    Signature \o <<10>> \o FormatLine \o <<10>> \o <<10>>
    \o <<45, 89, 32>> \o FormatInt(h.height)
    \o <<32, 43, 88, 32>> \o FormatInt(h.width) \o <<10>>

\* the file save writes
SavedFile(h) == SavedHeader(h) \o EncodeData(h.data, 0, h.width * h.height)

\* the three assertions of save
CanSave(h, filename) ==
    /\ is_valid(h)
    /\ EndsWith(filename, <<46, 104, 100, 114>>)
    /\ ~(h.rotated \/ h.xFlipped \/ h.yFlipped)

(***************************************************************************)
(* Input files: up to MaxHeaderLines lines followed by up to MaxPayload    *)
(* raw bytes.  A line is blank, the signature, a FORMAT= entry, or a       *)
(* resolution line "<sign><axis> <n> <sign><axis> <n>".                    *)
(***************************************************************************)
BlankLine == [kind |-> "blank", res |-> <<>>]
SignatureLine == [kind |-> "signature", res |-> <<>>]
EntryLine == [kind |-> "entry", res |-> <<>>]
ResolutionLine(s1, a1, n1, s2, a2, n2) ==
    [kind |-> "resolution", res |-> <<s1, a1, n1, s2, a2, n2>>]

InputLines ==
    { BlankLine, SignatureLine, EntryLine,
      ResolutionLine(45, 89, 1, 43, 88, 1),      \* -Y 1 +X 1
      ResolutionLine(43, 89, 1, 43, 88, 1),      \* +Y 1 +X 1
      ResolutionLine(45, 89, 1, 45, 88, 1),      \* -Y 1 -X 1
      ResolutionLine(43, 88, 1, 45, 89, 1),      \* +X 1 -Y 1
      ResolutionLine(63, 65, 1, 63, 66, 1) }     \* ?A 1 ?B 1

PayloadBytes == {10, 128}

LineBytes(l) ==
    IF l.kind = "blank" THEN <<10>>
    ELSE IF l.kind = "signature" THEN Signature \o <<10>>
    ELSE IF l.kind = "entry" THEN FormatLine \o <<10>>
    ELSE <<l.res[1], l.res[2], 32>> \o FormatNat(l.res[3])
         \o <<32, l.res[4], l.res[5], 32>> \o FormatNat(l.res[6]) \o <<10>>

RECURSIVE LinesBytes(_)
LinesBytes(ls) ==
    IF ls = <<>> THEN <<>> ELSE LineBytes(Head(ls)) \o LinesBytes(Tail(ls))

SeqsUpTo(S, n) == UNION { [1..k -> S] : k \in 0..n }

NoInput == [lines |-> <<>>, payload |-> <<>>]

\* the names save is called with: "a.hdr" and "a.png"
Filenames == { <<97, 46, 104, 100, 114>>, <<97, 46, 112, 110, 103>> }

\* the pixels set_pixel is called with
Pixels == { <<Dim, White, Black>> }

\* the (width, height) create_black_image is called with
Dims == ((1..MaxDim) \X (1..MaxDim)) \cup {<<WideDim, 1>>}

\* the coordinates get_pixel and set_pixel are called with
Coords == (0 - 1)..MaxDim

(***************************************************************************)
(* State.                                                                  *)
(*   file    content of the file load_from_file reads and save writes      *)
(*   hdr     the HDR object the caller holds                               *)
(*   err     outcome of the last call: "ok" or the failed assertion        *)
(*   call    the last call and its arguments                               *)
(*   ret     what the last call returned (a pixel for get_pixel)           *)
(*   data    the local data of the last load_from_file                     *)
(* History:                                                                *)
(*   input   lines and payload of the input file (NoInput once save wrote) *)
(*   origin  who wrote file: "none", "input", "save"                       *)
(*   made    how hdr was obtained, its dimensions then, whether set_pixel  *)
(*           changed it since                                              *)
(*   saved   made and hdr at the last successful save                      *)
(*   nsets   successful set_pixel calls so far                             *)
(* A session obtains its first image either from an input file or from     *)
(* create_black_image, and saves at most once.                             *)
(***************************************************************************)
VARIABLES file, hdr, err, call, ret, data, input, origin, made, saved, nsets

vars == <<file, hdr, err, call, ret, data, input, origin, made, saved, nsets>>

NoPixel == <<Black, Black, Black>>

Call(op, x, y) == [op |-> op, x |-> x, y |-> y]

NotMade == [how |-> "none", width |-> -1, height |-> -1, touched |-> FALSE]

NotSaved == [valid |-> FALSE, made |-> NotMade, hdr |-> NewHDR]

Init ==
    /\ file = <<>>
    /\ hdr = NewHDR
    /\ err = "ok"
    /\ call = Call("init", 0, 0)
    /\ ret = NoPixel
    /\ data = <<>>
    /\ input = NoInput
    /\ origin = "none"
    /\ made = NotMade
    /\ saved = NotSaved
    /\ nsets = 0

\* the environment provides the input file of the session
ProvideInput ==
    /\ origin = "none"
    /\ made.how = "none"
    /\ \E ls \in SeqsUpTo(InputLines, MaxHeaderLines) :
         \E p \in SeqsUpTo(PayloadBytes, MaxPayload) :
            /\ file' = LinesBytes(ls) \o p
            /\ input' = [lines |-> ls, payload |-> p]
    /\ origin' = "input"
    /\ call' = Call("input", 0, 0)
    /\ UNCHANGED <<hdr, err, ret, data, made, saved, nsets>>

\* hdr = HDR.load_from_file(filename); a failed assertion returns nothing
LoadFromFile ==
    LET r == load_from_file(file)
    IN  /\ err' = r.err
        /\ data' = r.data
        /\ call' = Call("load", 0, 0)
        /\ ret' = NoPixel
        /\ IF r.err = "ok"
             THEN /\ hdr' = r.hdr
                  /\ made' = [how |-> "load", width |-> r.hdr.width,
                              height |-> r.hdr.height, touched |-> FALSE]
             ELSE UNCHANGED <<hdr, made>>
        /\ UNCHANGED <<file, input, origin, saved, nsets>>

\* hdr = HDR.create_black_image(width, height), in a session without input
CreateBlackImage ==
    /\ origin = "none"
    /\ made.how = "none"
    /\ \E d \in Dims :
         /\ hdr' = create_black_image(d[1], d[2])
         /\ made' = [how |-> "black", width |-> d[1], height |-> d[2],
                     touched |-> FALSE]
         /\ call' = Call("create", d[1], d[2])
    /\ nsets' = 0
    /\ err' = "ok"
    /\ ret' = NoPixel
    /\ UNCHANGED <<file, data, input, origin, saved>>

\* hdr.get_pixel(x, y)
GetPixel ==
    /\ made.how # "none"
    /\ \E x \in Coords : \E y \in Coords :
         /\ call' = Call("get", x, y)
         /\ IF InBounds(hdr, x, y)
              THEN err' = "ok" /\ ret' = get_pixel(hdr, x, y)
              ELSE err' = "AssertionError" /\ ret' = NoPixel
    /\ UNCHANGED <<file, hdr, data, input, origin, made, saved, nsets>>

\* hdr.set_pixel(x, y, pixel)
SetPixel ==
    /\ made.how # "none"
    /\ \E x \in Coords : \E y \in Coords : \E pixel \in Pixels :
         /\ call' = Call("set", x, y)
         /\ IF InBounds(hdr, x, y)
              THEN /\ nsets < MaxSets
                   /\ err' = "ok"
                   /\ hdr' = set_pixel(hdr, x, y, pixel)
                   /\ made' = [made EXCEPT !.touched = TRUE]
                   /\ nsets' = nsets + 1
              ELSE /\ err' = "AssertionError"
                   /\ UNCHANGED <<hdr, made, nsets>>
    /\ ret' = NoPixel
    /\ UNCHANGED <<file, data, input, origin, saved>>

\* hdr.save(filename)
Save ==
    /\ made.how # "none"
    /\ origin # "save"
    /\ call' = Call("save", 0, 0)
    /\ ret' = NoPixel
    /\ \E filename \in Filenames :
         IF CanSave(hdr, filename)
           THEN /\ err' = "ok"
                /\ file' = SavedFile(hdr)
                /\ input' = NoInput
                /\ origin' = "save"
                /\ saved' = [valid |-> TRUE, made |-> made, hdr |-> hdr]
           ELSE /\ err' = "AssertionError"
                /\ UNCHANGED <<file, input, origin, saved>>
    /\ UNCHANGED <<hdr, data, made, nsets>>

Next ==
    \/ ProvideInput
    \/ LoadFromFile
    \/ CreateBlackImage
    \/ GetPixel
    \/ SetPixel
    \/ Save

Spec == Init /\ [][Next]_vars

\* sessions that start from create_black_image
NextImage ==
    \/ CreateBlackImage
    \/ GetPixel
    \/ SetPixel
    \/ Save
    \/ LoadFromFile

ImageSpec == Init /\ [][NextImage]_vars

(***************************************************************************)
(* What an input file declares, read off its lines (not off the parser).   *)
(***************************************************************************)
\* index of the first resolution line of ls, 0 if there is none
RECURSIVE FirstResolutionFrom(_, _)
FirstResolutionFrom(ls, i) ==
    IF i > Len(ls) THEN 0
    ELSE IF ls[i].kind = "resolution" THEN i
    ELSE FirstResolutionFrom(ls, i + 1)

FirstResolution == FirstResolutionFrom(input.lines, 1)

\* the first resolution line (only used where FirstResolution # 0)
Resolution == input.lines[FirstResolution].res

DeclaredHeight == Resolution[3]
DeclaredWidth == Resolution[6]

\* signs are '+' or '-', the axes are 'X' and 'Y', one each
WellFormedResolution ==
    /\ Resolution[1] \in {43, 45} /\ Resolution[4] \in {43, 45}
    /\ {Resolution[2], Resolution[5]} = {88, 89}

DeclaresRotation == Resolution[2] = 88
DeclaresXFlip == (IF Resolution[2] = 88 THEN Resolution[1] ELSE Resolution[4]) = 45
DeclaresYFlip == (IF Resolution[2] = 89 THEN Resolution[1] ELSE Resolution[4]) = 43
CanonicalResolution ==
    /\ WellFormedResolution
    /\ ~(DeclaresRotation \/ DeclaresXFlip \/ DeclaresYFlip)

SignatureBeforeResolution ==
    \E j \in 1..(FirstResolution - 1) : input.lines[j].kind = "signature"

\* the bytes that follow the newline of the first resolution line
FollowingBytes ==
    LinesBytes(SubSeq(input.lines, FirstResolution + 1, Len(input.lines)))
    \o input.payload

\* the last call was load_from_file on the input file
LoadedInput == call.op = "load" /\ origin = "input"

\* the last call was load_from_file on the file save wrote
LoadedSaved == call.op = "load" /\ origin = "save"

FormatErrors == {"Invalid header.", "Invalid dimensions."}
UnsupportedError == "Flip or rotation flags are not supported."

\* the header parses cleanly: signature, then a well-formed resolution line
\* with positive dimensions as the last line, then exactly 4*w*h bytes
CleanInput ==
    /\ FirstResolution # 0
    /\ FirstResolution = Len(input.lines)
    /\ SignatureBeforeResolution
    /\ WellFormedResolution
    /\ DeclaredWidth > 0 /\ DeclaredHeight > 0
    /\ Len(input.payload) = 4 * DeclaredWidth * DeclaredHeight

(***************************************************************************)
(* Claims.                                                                 *)
(***************************************************************************)
\* C1: an input whose header parses cleanly (signature, resolution line with
\* positive dimensions, exactly 4*w*h pixel bytes) fails with the
\* unsupported-orientation error when the resolution line declares a
\* rotation, an x-flip or a y-flip; it succeeds only for "-Y h +X w", and no
\* returned image has an orientation flag set.
C1_UnsupportedOrientation ==
    (LoadedInput /\ CleanInput) =>
        /\ (DeclaresRotation \/ DeclaresXFlip \/ DeclaresYFlip)
              => err = UnsupportedError
        /\ err = "ok" => CanonicalResolution
        /\ err = "ok" => ~(hdr.rotated \/ hdr.xFlipped \/ hdr.yFlipped)

\* C2: an input with a signature and a resolution line declaring h and w fails
\* with "Invalid dimensions." whenever the number of bytes after the
\* resolution line's newline is not 4*w*h.  (Stated for "-Y h +X w", where
\* no other assertion can fail.)
C2_ByteCountMismatch ==
    (/\ LoadedInput
     /\ FirstResolution # 0
     /\ SignatureBeforeResolution
     /\ CanonicalResolution
     /\ Len(FollowingBytes) # 4 * DeclaredWidth * DeclaredHeight)
        => err = "Invalid dimensions."

\* C3: saving create_black_image(w, h) and loading the file succeeds and gives
\* width w, height h, no orientation flag, and 3*w*h values all 0.0.
C3_BlackRoundTrip ==
    (LoadedSaved /\ saved.made.how = "black" /\ ~saved.made.touched) =>
        /\ err = "ok"
        /\ hdr.width = saved.made.width
        /\ hdr.height = saved.made.height
        /\ ~(hdr.rotated \/ hdr.xFlipped \/ hdr.yFlipped)
        /\ Len(hdr.data) = 3 * saved.made.width * saved.made.height
        /\ \A j \in 1..Len(hdr.data) : hdr.data[j] = Black

C3_Witness ==
    /\ LoadedSaved /\ saved.made.how = "black" /\ ~saved.made.touched
    /\ err = "ok"
    /\ saved.made.width = WideDim /\ hdr.width = WideDim

\* C4: saving an image that load_from_file returned (of positive dimensions,
\* not changed since) and loading the file gives the same width and height
\* and the same buffer, channel by channel.
C4_LoadedRoundTrip ==
    (/\ LoadedSaved
     /\ saved.made.how = "load" /\ ~saved.made.touched
     /\ saved.hdr.width > 0 /\ saved.hdr.height > 0) =>
        /\ err = "ok"
        /\ hdr.width = saved.hdr.width
        /\ hdr.height = saved.hdr.height
        /\ hdr.data = saved.hdr.data

\* C5: an image obtained from create_black_image or from a successful
\* load_from_file keeps len(data) = 3 * width * height (is_valid() is True)
\* and the width and height it had when obtained, whatever get_pixel and
\* set_pixel calls (succeeding or failing) were made on it.
C5_DimensionInvariant ==
    made.how # "none" =>
        /\ Len(hdr.data) = 3 * hdr.width * hdr.height
        /\ is_valid(hdr)
        /\ hdr.width = made.width
        /\ hdr.height = made.height

C5_Witness ==
    /\ made.how = "load" /\ made.touched
    /\ call.op = "set" /\ err = "AssertionError"

\* C6: get_pixel(x, y) and set_pixel(x, y, p) succeed when 0 <= x < width and
\* 0 <= y < height, fail with an assertion error for every other pair, and a
\* failing set_pixel leaves the buffer unchanged.
C6_BoundsChecking ==
    [][call'.op \in {"get", "set"} =>
         LET inside == /\ 0 <= call'.x /\ call'.x < hdr.width
                       /\ 0 <= call'.y /\ call'.y < hdr.height
         IN  /\ inside => err' = "ok"
             /\ ~inside => (err' = "AssertionError" /\ hdr' = hdr)]_vars

C6_Witness ==
    /\ made.how # "none"
    /\ call.op = "set" /\ err = "AssertionError"
    /\ call.x = hdr.width /\ call.y = 0

\* C7: an input in which a resolution line is read before the signature fails
\* with a format error, also when a signature line follows.  (Stated for
\* "-Y h +X w", where the orientation assertion cannot fail.)
C7_SignatureFirst ==
    (/\ LoadedInput
     /\ FirstResolution # 0
     /\ ~SignatureBeforeResolution
     /\ CanonicalResolution)
        => err \in FormatErrors

\* C8: an input with no resolution line fails with a format error, whatever
\* bytes follow; no returned image has dimensions that were not read from a
\* resolution line.
C8_NoResolutionLine ==
    (LoadedInput /\ FirstResolution = 0) => err \in FormatErrors

\* C9: a line "<c1><c2> <digits> <c3><c4> <digits>" whose signs are not '+' or
\* '-' or whose axes are not 'X' and 'Y' is no resolution line: load_from_file
\* fails on it.
C9_MalformedResolution ==
    (LoadedInput /\ FirstResolution # 0 /\ ~WellFormedResolution)
        => err # "ok"

\* C10: every byte after the newline of the first resolution line is pixel
\* data; for a file save wrote, the data are its 4*w*h pixel bytes.
C10_DataAfterResolution ==
    /\ (LoadedInput /\ FirstResolution # 0) => data = FollowingBytes
    /\ LoadedSaved =>
          data = ReadRest(file, Len(SavedHeader(saved.hdr)) + 1)

====
